---- MODULE Spec2Model ----
(***************************************************************************)
(* Model of frame-script-cli (src/src/cli.ts): the release selection       *)
(* pickLatestReleaseWithBinZip, the redirect-following HTTP helpers        *)
(* requestJson / downloadToFile, and the linear pipeline of main.          *)
(***************************************************************************)
EXTENDS Integers, Sequences, FiniteSets, TLC

(***************************************************************************)
(* Bounds of the model.                                                    *)
(***************************************************************************)
\* longest release listing explored by SpecPick
MaxReleases == 3

(***************************************************************************)
(* JavaScript values.                                                      *)
(***************************************************************************)
\* undefined / null of an optional string field (both are nullish)
Absent == "<undefined>"

\* a ?? b on optional strings
Coalesce(a, b) == IF a = Absent THEN b ELSE a

\* truthiness of an optional string: undefined, null and "" are falsy
TruthyStr(s) == s # Absent /\ s # ""

\* a JavaScript number that may be NaN
Num(n) == [nan |-> FALSE, v |-> n]
NaN == [nan |-> TRUE, v |-> 0]

\* a || b on numbers: NaN and 0 are falsy
JsOr(a, b) == IF a.nan \/ a.v = 0 THEN b ELSE a

\* a > b on numbers: any comparison with NaN is false
JsGreater(a, b) == ~a.nan /\ ~b.nan /\ a.v > b.v

\* Date.parse on the date strings of the model; the result is scaled from
\* milliseconds to whole days since the epoch (order preserving) to stay
\* inside TLC's integers.  Anything that is not an ISO date gives NaN.
DateParse(s) ==
  CASE s = "2024-01-01T00:00:00Z" -> Num(19723)
    [] s = "2024-06-01T00:00:00Z" -> Num(19875)
    [] s = "2024-12-01T00:00:00Z" -> Num(20058)
    [] OTHER -> NaN

\* a comparison of asset names that respects case
ToLowerCase_Identity(s) == s

\* String.prototype.toLowerCase on the asset names of the model
ToLowerCase(s) ==
  CASE s = "Bin.ZIP" -> "bin.zip"
    [] s = "BIN.ZIP" -> "bin.zip"
    [] s = "Other.ZIP" -> "other.zip"
    [] OTHER -> s

(***************************************************************************)
(* Release listings (type Release, cli.ts:51-57).  A missing draft flag is *)
(* falsy and is modelled as FALSE; a missing assets array behaves as the   *)
(* empty array under ?.find and is modelled as <<>>.                       *)
(***************************************************************************)
Asset(n, u) == [name |-> n, browser_download_url |-> u]

Release(n, d, p, c, as) ==
  [name |-> n, draft |-> d, published_at |-> p, created_at |-> c, assets |-> as]

\* values of published_at and of created_at in a listing
PublishedFields ==
  {Absent, "", "not-a-date", "2024-01-01T00:00:00Z", "2024-06-01T00:00:00Z"}
CreatedFields == {Absent, "2024-01-01T00:00:00Z", "2024-06-01T00:00:00Z"}

\* asset arrays whose first bin.zip asset has a download URL
UsableAssets ==
  { <<Asset("bin.zip", "https://dl/A")>>,
    <<Asset("other.zip", "https://dl/C"), Asset("Bin.ZIP", "https://dl/B")>> }

\* asset arrays from which no download URL is taken
UnusableAssets ==
  { <<>>,
    <<Asset("other.zip", "https://dl/C")>>,
    <<Asset(Absent, "https://dl/C")>>,
    <<Asset("bin.zip", Absent)>>,
    <<Asset("BIN.ZIP", ""), Asset("bin.zip", "https://dl/A")>> }

\* the releases SpecPick builds listings from: every combination of date
\* fields on a usable release, a usable release with a mixed-case asset
\* name, drafts, and unusable releases carrying the newest date
Releases ==
  { Release("r", FALSE, p, c, <<Asset("bin.zip", "https://dl/A")>>) :
      p \in PublishedFields, c \in CreatedFields }
  \cup
  { Release("r", FALSE, p, Absent,
            <<Asset("other.zip", "https://dl/C"),
              Asset("Bin.ZIP", "https://dl/B")>>) :
      p \in {Absent, "2024-12-01T00:00:00Z"} }
  \cup
  { Release("r", TRUE, p, Absent, as) :
      p \in {Absent, "2024-12-01T00:00:00Z"}, as \in UsableAssets }
  \cup
  { Release("r", FALSE, "2024-12-01T00:00:00Z", Absent, as) :
      as \in UnusableAssets }

\* the listings SpecPick explores
ListingLengths == 0..MaxReleases

(***************************************************************************)
(* pickLatestReleaseWithBinZip (cli.ts:153-188).                           *)
(***************************************************************************)
\* a find that takes the first asset whatever its name
FindBinZip_AnyName(assets) ==
  IF assets = <<>> THEN <<>> ELSE <<assets[1]>>

\* release.assets?.find(entry => (entry.name ?? "").toLowerCase() === "bin.zip")
\* as <<asset>>, or <<>> when find returns undefined
FindBinZip(assets) ==
  LET hits == { i \in DOMAIN assets :
                  ToLowerCase(Coalesce(assets[i].name, "")) = "bin.zip" }
  IN IF hits = {} THEN <<>>
     ELSE <<assets[CHOOSE i \in hits : \A j \in hits : i <= j]>>

\* asset?.browser_download_url
AssetUrl(release) ==
  LET asset == FindBinZip(release.assets)
  IN IF asset = <<>> THEN Absent ELSE asset[1].browser_download_url

\* a loop body without the draft guard
Candidate_IgnoresDraft(release) == TruthyStr(AssetUrl(release))

\* the two `continue` guards of the loop body: the release is a candidate
Candidate(release) == ~release.draft /\ TruthyStr(AssetUrl(release))

\* const time = Date.parse(published_at ?? "") || Date.parse(created_at ?? "") || 0
Time(release) ==
  JsOr(JsOr(DateParse(Coalesce(release.published_at, "")),
            DateParse(Coalesce(release.created_at, ""))),
       Num(0))

\* const latestTime = ... ; latest is <<>> (undefined) or <<[release, assetUrl]>>
LatestTime(latest) ==
  IF latest # <<>>
     /\ (TruthyStr(latest[1].release.published_at)
         \/ TruthyStr(latest[1].release.created_at))
  THEN JsOr(DateParse(Coalesce(latest[1].release.published_at,
                               Coalesce(latest[1].release.created_at, ""))),
            Num(0))
  ELSE Num(0)

\* if (!latest || time > latestTime)
Replaces(latest, release) ==
  latest = <<>> \/ JsGreater(Time(release), LatestTime(latest))

\* one iteration of the for loop: the value of `latest` after it
PickStep(latest, release) ==
  IF Candidate(release) /\ Replaces(latest, release)
  THEN <<[release |-> release, assetUrl |-> AssetUrl(release)]>>
  ELSE latest

\* the whole function: the loop folded over the first n releases
RECURSIVE PickUpTo(_, _)
PickUpTo(rels, n) ==
  IF n = 0 THEN <<>> ELSE PickStep(PickUpTo(rels, n - 1), rels[n])

pickLatestReleaseWithBinZip(rels) == PickUpTo(rels, Len(rels))


(***************************************************************************)
(* State.                                                                  *)
(***************************************************************************)
VARIABLES
  \* pickLatestReleaseWithBinZip: its argument, the number of loop
  \* iterations done, the local `latest`, and where the function stands
  releases, idx, latest, pickPc,
  \* index in `releases` of the release held by `latest` (0: none); not a
  \* program variable, recorded to tell equal releases apart
  latestIdx,
  \* the HTTP helper in progress: which function, its promise state, the
  \* `redirects` and `url` arguments of the current hop, the rejection
  \* value, the value of a fulfilled requestJson
  httpKind, httpState, redirects, url, httpErr, httpResult,
  \* history of the HTTP helper: status of the latest response, requests
  \* issued by the current top-level call and by the whole process
  lastStatus, opRequests, requestCount,
  \* responses received by the current top-level call, and whether each of
  \* them was a 3xx response carrying a Location header
  responses, onlyRedirects,
  \* the Location header of the latest response
  lastLocation,
  \* the file system: the target directory, the temporary directory, how
  \* often each download file was opened for writing, what was extracted
  targetDir, tmpDir, fileOpens, templateExtracted, binExtracted,
  binExecutable,
  \* the process: the await main is suspended at, argv, the project name,
  \* locals of main, the pending exception, exit status, output streams,
  \* the stages started so far, number of npm subprocesses spawned
  pc, args, rawName, tag, binaryZipUrl, err, exitCode, stdout, stderr,
  stages, npmRuns,
  \* how the npm subprocess ended ("none": not yet)
  npmOutcome,
  \* the stages that threw, in order (history)
  failures,
  \* whether the target directory existed when the process started, and
  \* whether process.platform is "win32"
  targetAtStart, win32,
  \* a call of requestJson and a call of downloadToFile that are given the
  \* same responses: for each its promise state, `redirects` and `url` of
  \* the current hop, the URLs requested, and the status in its rejection
  jsonCall, dlCall

pickVars == <<releases, idx, latest, pickPc, latestIdx>>
httpVars == <<httpKind, httpState, redirects, url, httpErr, httpResult,
              lastStatus, opRequests, requestCount, responses,
              onlyRedirects, lastLocation>>
fsVars == <<targetDir, tmpDir, fileOpens, templateExtracted, binExtracted,
            binExecutable>>
procVars == <<pc, args, rawName, tag, binaryZipUrl, err, exitCode, stdout,
              stderr, stages, npmRuns, npmOutcome, failures>>
envVars == <<targetAtStart, win32>>
pairVars == <<jsonCall, dlCall>>
vars == <<pickVars, httpVars, fsVars, procVars, envVars, pairVars>>

(***************************************************************************)
(* Constants of cli.ts.                                                    *)
(***************************************************************************)
LATEST_RELEASE_URL ==
  "https://api.github.com/repos/frame-script/FrameScript/releases/latest"
RELEASES_URL ==
  "https://api.github.com/repos/frame-script/FrameScript/releases?per_page=100"
\* `https://codeload.github.com/${REPO}/tar.gz/${tag}` for the tags of the model
TarballUrl(t) ==
  IF t = "v1.2.0"
  THEN "https://codeload.github.com/frame-script/FrameScript/tar.gz/v1.2.0"
  ELSE "https://codeload.github.com/frame-script/FrameScript/tar.gz/"
\* const maxRedirects = 5 of requestJson and of downloadToFile
maxRedirectsJson == 5
maxRedirectsDownload == 5

(***************************************************************************)
(* Values of errors: what was thrown and, for a status error, the status   *)
(* printed in its message.                                                 *)
(***************************************************************************)
Error(k, s) == [kind |-> k, status |-> s]
NoError == Error("none", -1)

(***************************************************************************)
(* What the environment can answer.                                        *)
(***************************************************************************)
\* res.statusCode ?? 0 of a response
Statuses == {0, 200, 301, 302, 404, 503}
\* res.headers.location of a response
Locations == {Absent, "", "https://objects.example/blob", "/moved"}
\* new URL(location, url).toString() for the locations of the model
ResolveUrl(location, base) ==
  IF location = "/moved"
  THEN IF base = LATEST_RELEASE_URL \/ base = RELEASES_URL
       THEN "https://api.github.com/moved"
       ELSE IF base = "https://objects.example/blob"
       THEN "https://objects.example/moved"
       ELSE base
  ELSE location
\* process.argv.slice(2)
ArgLists == { <<>>, <<"my-app">>, <<"--help">>, <<"my-app", "-h">> }
\* lines typed at the "Project name: " prompt
Answers == { "", "   ", " my-app " }
\* String.prototype.trim on the answers of the model
Trim(s) ==
  CASE s = "   " -> ""
    [] s = " my-app " -> "my-app"
    [] OTHER -> s
\* parsed bodies of the latest-release endpoint (type LatestRelease)
LatestReleaseBodies ==
  { [tag_name |-> t] : t \in {Absent, "", "v1.2.0"} }
\* the listing of the example of the specification and some short ones
ExampleListing ==
  << Release("v1", FALSE, "2024-01-01T00:00:00Z", Absent,
             <<Asset("bin.zip", "https://dl/A")>>),
     Release("v2", FALSE, "2024-06-01T00:00:00Z", Absent,
             <<Asset("bin.zip", "https://dl/B")>>),
     Release("v3", TRUE, "2024-12-01T00:00:00Z", Absent,
             <<Asset("bin.zip", "https://dl/C")>>) >>
ReleasesBodies ==
  { <<>>, ExampleListing,
    <<Release("v3", TRUE, "2024-12-01T00:00:00Z", Absent,
              <<Asset("bin.zip", "https://dl/C")>>)>>,
    <<Release("v1", FALSE, Absent, "2024-01-01T00:00:00Z",
              <<Asset("Bin.ZIP", "https://dl/A")>>)>>,
    <<Release("v1", FALSE, "2024-01-01T00:00:00Z", Absent,
              <<Asset("bin.zip", Absent)>>)>> }


(***************************************************************************)
(* requestJson (cli.ts:59-104) and downloadToFile (cli.ts:106-142).        *)
(* httpState is the state of the promise of the top-level call:            *)
(* "Requesting" while a request is in flight, "Body" while a 2xx body is   *)
(* being received, then "Succeeded" or "Failed".                           *)
(***************************************************************************)
\* the call requestJson(u) or downloadToFile(u, file): https.get issues the
\* first request
StartRequest(kind, u) ==
  /\ httpKind' = kind
  /\ httpState' = "Requesting"
  /\ redirects' = 0
  /\ url' = u
  /\ httpErr' = NoError
  /\ httpResult' = <<>>
  /\ lastStatus' = -1
  /\ opRequests' = 1
  /\ requestCount' = requestCount + 1
  /\ responses' = 0
  /\ onlyRedirects' = TRUE
  /\ lastLocation' = Absent

\* a redirect test that lets the hop count reach past the maximum
RequestJsonFollows_OffByOne(status, location, hops) ==
  status >= 300 /\ status < 400 /\ TruthyStr(location)
  /\ hops <= maxRedirectsJson

\* the redirect test of requestJson (cli.ts:72-77)
RequestJsonFollows(status, location, hops) ==
  status >= 300 /\ status < 400 /\ TruthyStr(location)
  /\ hops < maxRedirectsJson

\* a redirect test that does not look at the Location header
DownloadFollows_NoLocationTest(status, location, hops) ==
  status >= 300 /\ status < 400 /\ hops < maxRedirectsDownload

\* the redirect test of downloadToFile (cli.ts:118-123)
DownloadFollows(status, location, hops) ==
  status >= 300 /\ status < 400 /\ TruthyStr(location)
  /\ hops < maxRedirectsDownload

\* the failure test of requestJson (cli.ts:84)
RequestJsonRejects(status) == status < 200 \/ status >= 300

\* a failure test that lets 3xx and 1xx responses through
DownloadRejects_OnlyErrors(status) == status >= 400

\* a failure test without its lower bound
DownloadRejects_NoLowerBound(status) == status >= 300

\* the failure test of downloadToFile (cli.ts:130)
DownloadRejects(status) == status < 200 \/ status >= 300

\* new Error(`Request failed with status ${status}`) (cli.ts:86)
RequestJsonStatusError(status) == Error("Request failed with status", status)

\* an error that reports the status of the hop before
DownloadStatusError_EarlierHop(status) ==
  Error("Download failed with status", lastStatus)

\* new Error(`Download failed with status ${status}`) (cli.ts:132)
DownloadStatusError(status) == Error("Download failed with status", status)

\* the recursive call on a followed redirect: one more request, to nextUrl
FollowRedirect(location) ==
  /\ url' = ResolveUrl(location, url)
  /\ redirects' = redirects + 1
  /\ opRequests' = opRequests + 1
  /\ requestCount' = requestCount + 1
  /\ UNCHANGED <<httpKind, httpState, httpErr, httpResult>>

\* the response callback of requestJson (cli.ts:70-89)
RequestJsonResponse ==
  /\ httpKind = "requestJson" /\ httpState = "Requesting"
  /\ \E status \in Statuses, location \in Locations :
       /\ lastStatus' = status
       /\ responses' = responses + 1
       /\ lastLocation' = location
       /\ onlyRedirects' = (onlyRedirects /\ status >= 300 /\ status < 400
                             /\ TruthyStr(location))
       /\ IF RequestJsonFollows(status, location, redirects)
          THEN FollowRedirect(location)
          ELSE /\ IF RequestJsonRejects(status)
                  THEN /\ httpState' = "Failed"
                       /\ httpErr' = RequestJsonStatusError(status)
                  ELSE /\ httpState' = "Body"
                       /\ httpErr' = httpErr
               /\ UNCHANGED <<httpKind, redirects, url, httpResult,
                              opRequests, requestCount>>
  /\ UNCHANGED <<pickVars, fsVars, procVars, envVars, pairVars>>

\* the bodies JSON.parse can return for the endpoint main is waiting for
ParsedBodies ==
  IF pc = "fetchLatestTag" THEN LatestReleaseBodies ELSE ReleasesBodies

\* res.on("end") of requestJson (cli.ts:92-99): JSON.parse returns or throws
RequestJsonEnd ==
  /\ httpKind = "requestJson" /\ httpState = "Body"
  /\ \/ \E body \in ParsedBodies :
          /\ httpState' = "Succeeded"
          /\ httpResult' = body
          /\ httpErr' = httpErr
     \/ /\ httpState' = "Failed"
        /\ httpErr' = Error("SyntaxError", -1)
        /\ httpResult' = httpResult
  /\ UNCHANGED <<httpKind, redirects, url, lastStatus, opRequests,
                 requestCount, responses, onlyRedirects,
                 lastLocation>>
  /\ UNCHANGED <<pickVars, fsVars, procVars, envVars, pairVars>>

\* the connection is lost while requestJson receives a 2xx body.  The
\* response has no "error", "aborted" or "close" listener (cli.ts:90-99):
\* when the socket reports an error the request's "error" event rejects the
\* promise (cli.ts:102); when the connection is merely closed early the
\* response is aborted, "end" is never emitted and the promise stays
\* pending ("Aborted"), for good.
RequestJsonBodyCutOff ==
  /\ httpKind = "requestJson" /\ httpState = "Body"
  /\ \/ /\ httpState' = "Failed"
        /\ httpErr' = Error("request error", -1)
     \/ /\ httpState' = "Aborted"
        /\ httpErr' = httpErr
  /\ UNCHANGED <<httpKind, redirects, url, httpResult, lastStatus,
                 opRequests, requestCount, responses, onlyRedirects,
                 lastLocation>>
  /\ UNCHANGED <<pickVars, fsVars, procVars, envVars, pairVars>>

\* the file downloadToFile writes for the stage main is waiting for
DownloadFile == IF pc = "downloadTar" THEN "template.tgz" ELSE "bin.zip"

\* the response callback of downloadToFile (cli.ts:116-138)
DownloadResponse ==
  /\ httpKind = "downloadToFile" /\ httpState = "Requesting"
  /\ \E status \in Statuses, location \in Locations :
       /\ lastStatus' = status
       /\ responses' = responses + 1
       /\ lastLocation' = location
       /\ onlyRedirects' = (onlyRedirects /\ status >= 300 /\ status < 400
                             /\ TruthyStr(location))
       /\ IF DownloadFollows(status, location, redirects)
          THEN FollowRedirect(location) /\ UNCHANGED fileOpens
          ELSE /\ IF DownloadRejects(status)
                  THEN /\ httpState' = "Failed"
                       /\ httpErr' = DownloadStatusError(status)
                       /\ UNCHANGED fileOpens
                  ELSE /\ httpState' = "Body"
                       /\ httpErr' = httpErr
                       /\ fileOpens' =
                            [fileOpens EXCEPT ![DownloadFile] = @ + 1]
               /\ UNCHANGED <<httpKind, redirects, url, httpResult,
                              opRequests, requestCount>>
  /\ UNCHANGED <<pickVars, procVars, envVars, pairVars>>
  /\ UNCHANGED <<targetDir, tmpDir, templateExtracted, binExtracted,
                 binExecutable>>

\* pipeline(res, fileStream) settles (cli.ts:137)
DownloadPipelineEnd ==
  /\ httpKind = "downloadToFile" /\ httpState = "Body"
  /\ \/ /\ httpState' = "Succeeded"
        /\ httpErr' = httpErr
     \/ /\ httpState' = "Failed"
        /\ httpErr' = Error("stream error", -1)
  /\ UNCHANGED <<httpKind, redirects, url, httpResult, lastStatus,
                 opRequests, requestCount, responses, onlyRedirects,
                 lastLocation>>
  /\ UNCHANGED <<pickVars, fsVars, procVars, envVars, pairVars>>

\* req.on("error", reject) (cli.ts:102 and 140): the request fails before a
\* response arrives
RequestError ==
  /\ httpKind \in {"requestJson", "downloadToFile"}
  /\ httpState = "Requesting"
  /\ httpState' = "Failed"
  /\ httpErr' = Error("request error", -1)
  /\ UNCHANGED <<httpKind, redirects, url, httpResult, lastStatus,
                 opRequests, requestCount, responses, onlyRedirects,
                 lastLocation>>
  /\ UNCHANGED <<pickVars, fsVars, procVars, envVars, pairVars>>


(***************************************************************************)
(* The process: module top level, main (cli.ts:234-273) and the top-level  *)
(* catch (cli.ts:275-279).  pc names the await main is suspended at; one   *)
(* action runs the code from one await to the next.                        *)
(***************************************************************************)
HttpIdle == UNCHANGED httpVars

\* process.exit(code) after one line on stderr
ExitWithMessage(line) ==
  /\ stderr' = Append(stderr, line)
  /\ exitCode' = 1
  /\ pc' = "exited"

\* an exception leaves main from outside the try block: main's promise is
\* rejected and the catch handler is scheduled
Throw(e) ==
  /\ err' = e
  /\ failures' = Append(failures, pc)
  /\ pc' = "catch"

\* a try block without the finally clause
ThrowInTry_NoFinally(e) ==
  /\ err' = e
  /\ failures' = Append(failures, pc)
  /\ pc' = "catch"
  /\ stages' = stages

\* a try block that swallows the exception and carries on after cleanup
ThrowInTry_Swallowed(e) ==
  /\ err' = NoError
  /\ failures' = Append(failures, pc)
  /\ pc' = "rm"
  /\ stages' = Append(stages, "rm")

\* an exception inside the try block: the finally clause starts rm(tmpDir)
ThrowInTry(e) ==
  /\ err' = e
  /\ failures' = Append(failures, pc)
  /\ pc' = "rm"
  /\ stages' = Append(stages, "rm")

\* a main without the existsSync test
MainWithName_NoExistsTest(name) ==
  /\ rawName' = name
  /\ IF name = ""
     THEN /\ ExitWithMessage("Project name is required.")
          /\ UNCHANGED <<stdout, stages>>
          /\ HttpIdle
     ELSE /\ stdout' = Append(stdout, "Fetching latest template...")
          /\ stages' = Append(stages, "fetchLatestTag")
          /\ StartRequest("requestJson", LATEST_RELEASE_URL)
          /\ pc' = "fetchLatestTag"
          /\ UNCHANGED <<stderr, exitCode>>

\* main from the project name on, up to its first await (cli.ts:236-248)
MainWithName(name) ==
  /\ rawName' = name
  /\ IF name = ""
     THEN /\ ExitWithMessage("Project name is required.")
          /\ UNCHANGED <<stdout, stages>>
          /\ HttpIdle
     ELSE IF targetDir = "exists"
     THEN /\ ExitWithMessage("Directory already exists")
          /\ UNCHANGED <<stdout, stages>>
          /\ HttpIdle
     ELSE /\ stdout' = Append(stdout, "Fetching latest template...")
          /\ stages' = Append(stages, "fetchLatestTag")
          /\ StartRequest("requestJson", LATEST_RELEASE_URL)
          /\ pc' = "fetchLatestTag"
          /\ UNCHANGED <<stderr, exitCode>>

\* args.includes("-h") || args.includes("--help")
hasHelp == \E i \in DOMAIN args : args[i] \in {"-h", "--help"}

\* module top level (cli.ts:15-31) and the start of main (cli.ts:235)
Start ==
  /\ pc = "start"
  /\ IF hasHelp
     THEN /\ stdout' = Append(stdout, "usage")
          /\ exitCode' = 0
          /\ pc' = "exited"
          /\ UNCHANGED <<rawName, stderr, stages>>
          /\ HttpIdle
     ELSE IF args = <<>>
     THEN /\ pc' = "prompt"
          /\ UNCHANGED <<rawName, stdout, stderr, exitCode, stages>>
          /\ HttpIdle
     ELSE MainWithName(args[1])
  /\ UNCHANGED <<args, tag, binaryZipUrl, err, failures, npmRuns, npmOutcome>>
  /\ UNCHANGED <<pickVars, fsVars, envVars, pairVars>>

\* promptProjectName returns (cli.ts:33-41)
PromptAnswered ==
  /\ pc = "prompt"
  /\ \E answer \in Answers : MainWithName(Trim(answer))
  /\ UNCHANGED <<args, tag, binaryZipUrl, err, failures, npmRuns, npmOutcome>>
  /\ UNCHANGED <<pickVars, fsVars, envVars, pairVars>>

\* a tag test that only rejects an undefined tag
TagMissing_OnlyUndefined(t) == t = Absent

\* if (!tag) of fetchLatestTag (cli.ts:147)
TagMissing(t) == ~TruthyStr(t)

\* fetchLatestTag after its requestJson settled (cli.ts:145-150), then main
\* up to the requestJson of fetchLatestBinaryZipUrl (cli.ts:249-251, 191)
AfterFetchLatestTag ==
  /\ pc = "fetchLatestTag"
  /\ httpState \in {"Succeeded", "Failed"}
  /\ IF httpState = "Failed"
     THEN /\ Throw(httpErr)
          /\ UNCHANGED <<tag, stdout, stages>>
          /\ HttpIdle
     ELSE IF TagMissing(httpResult.tag_name)
     THEN /\ Throw(Error("Latest release tag not found.", -1))
          /\ UNCHANGED <<tag, stdout, stages>>
          /\ HttpIdle
     ELSE /\ tag' = httpResult.tag_name
          /\ stdout' = Append(stdout, "Fetching latest binary release...")
          /\ stages' = Append(stages, "fetchLatestBinaryZipUrl")
          /\ StartRequest("requestJson", RELEASES_URL)
          /\ pc' = "fetchLatestBinaryZipUrl"
          /\ UNCHANGED <<err, failures>>
  /\ UNCHANGED <<args, rawName, binaryZipUrl, exitCode, stderr, npmRuns, npmOutcome>>
  /\ UNCHANGED <<pickVars, fsVars, envVars, pairVars>>

\* fetchLatestBinaryZipUrl after its requestJson settled (cli.ts:192-196),
\* then main up to mkdtemp (cli.ts:253)
AfterFetchLatestBinaryZipUrl ==
  /\ pc = "fetchLatestBinaryZipUrl"
  /\ httpState \in {"Succeeded", "Failed"}
  /\ IF httpState = "Failed"
     THEN /\ Throw(httpErr)
          /\ UNCHANGED <<binaryZipUrl, stages, pickVars>>
     ELSE /\ releases' = httpResult
          /\ idx' = Len(httpResult)
          /\ latest' = pickLatestReleaseWithBinZip(httpResult)
          /\ UNCHANGED <<pickPc, latestIdx>>
          /\ IF latest' = <<>>
             THEN /\ Throw(Error("Release with bin.zip not found.", -1))
                  /\ UNCHANGED <<binaryZipUrl, stages>>
             ELSE /\ binaryZipUrl' = latest'[1].assetUrl
                  /\ stages' = Append(stages, "mkdtemp")
                  /\ pc' = "mkdtemp"
                  /\ UNCHANGED <<err, failures>>
  /\ HttpIdle
  /\ UNCHANGED <<args, rawName, tag, exitCode, stdout, stderr, npmRuns, npmOutcome>>
  /\ UNCHANGED <<fsVars, envVars, pairVars>>

\* a main that creates the target directory along with the temporary one
AfterMkdtemp_CreatesTarget ==
  /\ pc = "mkdtemp"
  /\ tmpDir' = "exists"
  /\ targetDir' = "exists"
  /\ stages' = Append(stages, "downloadTar")
  /\ StartRequest("downloadToFile", TarballUrl(tag))
  /\ pc' = "downloadTar"
  /\ UNCHANGED <<args, rawName, tag, binaryZipUrl, exitCode, stdout, stderr,
                 npmRuns, npmOutcome, err, failures>>
  /\ UNCHANGED <<fileOpens, templateExtracted, binExtracted, binExecutable>>
  /\ UNCHANGED <<pickVars, envVars, pairVars>>

\* mkdtemp settles, then the first downloadToFile starts (cli.ts:253-257)
AfterMkdtemp ==
  /\ pc = "mkdtemp"
  /\ \/ /\ tmpDir' = "exists"
        /\ stages' = Append(stages, "downloadTar")
        /\ StartRequest("downloadToFile", TarballUrl(tag))
        /\ pc' = "downloadTar"
        /\ UNCHANGED <<err, failures>>
     \/ /\ Throw(Error("mkdtemp failed", -1))
        /\ UNCHANGED <<tmpDir, stages>>
        /\ HttpIdle
  /\ UNCHANGED <<args, rawName, tag, binaryZipUrl, exitCode, stdout, stderr,
                 npmRuns, npmOutcome>>
  /\ UNCHANGED <<targetDir, fileOpens, templateExtracted, binExtracted,
                 binExecutable>>
  /\ UNCHANGED <<pickVars, envVars, pairVars>>

\* the template download settled, the bin.zip download starts (cli.ts:257-258)
AfterDownloadTar ==
  /\ pc = "downloadTar"
  /\ httpState \in {"Succeeded", "Failed"}
  /\ IF httpState = "Failed"
     THEN ThrowInTry(httpErr) /\ HttpIdle
     ELSE /\ stages' = Append(stages, "downloadZip")
          /\ StartRequest("downloadToFile", binaryZipUrl)
          /\ pc' = "downloadZip"
          /\ UNCHANGED <<err, failures>>
  /\ UNCHANGED <<args, rawName, tag, binaryZipUrl, exitCode, stdout, stderr,
                 npmRuns, npmOutcome>>
  /\ UNCHANGED <<pickVars, fsVars, envVars, pairVars>>

\* the bin.zip download settled, mkdir(targetDir) starts (cli.ts:258-259)
AfterDownloadZip ==
  /\ pc = "downloadZip"
  /\ httpState \in {"Succeeded", "Failed"}
  /\ IF httpState = "Failed"
     THEN ThrowInTry(httpErr)
     ELSE /\ stages' = Append(stages, "mkdirTarget")
          /\ pc' = "mkdirTarget"
          /\ UNCHANGED <<err, failures>>
  /\ HttpIdle
  /\ UNCHANGED <<args, rawName, tag, binaryZipUrl, exitCode, stdout, stderr,
                 npmRuns, npmOutcome>>
  /\ UNCHANGED <<pickVars, fsVars, envVars, pairVars>>

\* a file-system stage inside the try block settles: it fulfils, with the
\* given effect on the file system, and main goes on to the next stage, or
\* it rejects
FsStage(at, next) ==
  /\ pc = at
  /\ \/ /\ stages' = Append(stages, next)
        /\ pc' = next
        /\ UNCHANGED <<err, failures>>
     \/ ThrowInTry(Error(at, -1))
  /\ HttpIdle
  /\ UNCHANGED <<args, rawName, tag, binaryZipUrl, exitCode, stdout, stderr,
                 npmRuns, npmOutcome>>
  /\ UNCHANGED <<pickVars, envVars, pairVars>>

\* mkdir(targetDir, { recursive: true }) settles (cli.ts:259)
AfterMkdirTarget ==
  /\ FsStage("mkdirTarget", "tarExtract")
  /\ targetDir' = IF pc' = "tarExtract" THEN "exists" ELSE targetDir
  /\ UNCHANGED <<tmpDir, fileOpens, templateExtracted, binExtracted,
                 binExecutable>>

\* tar.x settles (cli.ts:260); a failing extraction may have written files
AfterTarExtract ==
  /\ FsStage("tarExtract", "mkdirBin")
  /\ templateExtracted' \in
       IF pc' = "mkdirBin" THEN {"all"} ELSE {"none", "part"}
  /\ UNCHANGED <<targetDir, tmpDir, fileOpens, binExtracted, binExecutable>>

\* mkdir(binDir, { recursive: true }) settles (cli.ts:261-262)
AfterMkdirBin ==
  /\ FsStage("mkdirBin", "unzip")
  /\ UNCHANGED fsVars

\* the unzip pipeline settles (cli.ts:263)
AfterUnzip ==
  /\ FsStage("unzip", "makeExecutables")
  /\ binExtracted' \in
       IF pc' = "makeExecutables" THEN {"all"} ELSE {"none", "part"}
  /\ UNCHANGED <<targetDir, tmpDir, fileOpens, templateExtracted,
                 binExecutable>>

\* makeExecutablesUnder settles (cli.ts:214-232, 264); the finally clause
\* starts rm either way.  On win32 it returns without touching anything.
AfterMakeExecutables ==
  /\ pc = "makeExecutables"
  /\ \/ /\ binExecutable' = ~win32
        /\ UNCHANGED <<err, failures>>
     \/ /\ ~win32
        /\ err' = Error("makeExecutables", -1)
        /\ failures' = Append(failures, pc)
        /\ UNCHANGED binExecutable
  /\ pc' = "rm"
  /\ stages' = Append(stages, "rm")
  /\ HttpIdle
  /\ UNCHANGED <<args, rawName, tag, binaryZipUrl, exitCode, stdout, stderr,
                 npmRuns, npmOutcome>>
  /\ UNCHANGED <<targetDir, tmpDir, fileOpens, templateExtracted,
                 binExtracted>>
  /\ UNCHANGED <<pickVars, envVars, pairVars>>

\* rm(tmpDir, { recursive: true, force: true }) of the finally clause
\* settles (cli.ts:265-267); then the pending exception is rethrown, or
\* npm install is spawned (cli.ts:269-270, 199-202)
AfterRm ==
  /\ pc = "rm"
  /\ \/ /\ tmpDir' = "removed"
        /\ IF err # NoError
           THEN /\ pc' = "catch"
                /\ UNCHANGED <<err, failures, stdout, stages, npmRuns, npmOutcome>>
           ELSE /\ stdout' = Append(stdout, "Installing dependencies...")
                /\ stages' = Append(stages, "npmInstall")
                /\ npmRuns' = npmRuns + 1
                /\ UNCHANGED npmOutcome
                /\ pc' = "npmInstall"
                /\ UNCHANGED <<err, failures>>
     \/ /\ Throw(Error("rm failed", -1))
        /\ UNCHANGED <<tmpDir, stdout, stages, npmRuns, npmOutcome>>
  /\ HttpIdle
  /\ UNCHANGED <<args, rawName, tag, binaryZipUrl, exitCode, stderr>>
  /\ UNCHANGED <<targetDir, fileOpens, templateExtracted, binExtracted,
                 binExecutable>>
  /\ UNCHANGED <<pickVars, envVars, pairVars>>

\* what the npm subprocess can do: exit with a code, die from a signal
\* (code null), or fail to spawn ("error" event)
NpmOutcomes == {"exit 0", "exit 1", "exit null", "error"}

\* an exit handler that accepts every exit code
NpmResolves_AnyExitCode(outcome) == outcome \in {"exit 0", "exit 1"}

\* if (code === 0) of the exit handler (cli.ts:205); an "error" event rejects
NpmResolves(outcome) == outcome = "exit 0"

\* the promise of runNpmInstall settles (cli.ts:203-210), then main returns
\* (cli.ts:272) or throws
AfterNpmInstall ==
  /\ pc = "npmInstall"
  /\ \E outcome \in NpmOutcomes :
       /\ npmOutcome' = outcome
       /\ IF NpmResolves(outcome)
          THEN /\ stdout' = Append(stdout, "Created")
               /\ exitCode' = 0
               /\ pc' = "exited"
               /\ UNCHANGED <<err, failures>>
          ELSE /\ Throw(Error("npm install failed", -1))
               /\ UNCHANGED <<stdout, exitCode>>
  /\ HttpIdle
  /\ UNCHANGED <<args, rawName, tag, binaryZipUrl, stderr, stages, npmRuns>>
  /\ UNCHANGED <<pickVars, fsVars, envVars, pairVars>>

\* main().catch(...) (cli.ts:275-279)
TopLevelCatch ==
  /\ pc = "catch"
  /\ ExitWithMessage("Failed to initialize project")
  /\ HttpIdle
  /\ UNCHANGED <<args, rawName, tag, binaryZipUrl, err, failures, stdout,
                 stages, npmRuns, npmOutcome>>
  /\ UNCHANGED <<pickVars, fsVars, envVars, pairVars>>

(***************************************************************************)
(* The program.                                                            *)
(***************************************************************************)
PickIdle ==
  /\ releases = <<>> /\ idx = 0 /\ latest = <<>> /\ latestIdx = 0

HttpInit ==
  /\ httpKind = "none" /\ httpState = "Idle" /\ redirects = 0
  /\ url = "" /\ httpErr = NoError /\ httpResult = <<>>
  /\ lastStatus = -1 /\ opRequests = 0 /\ requestCount = 0
  /\ responses = 0 /\ onlyRedirects = TRUE /\ lastLocation = Absent

ProcInit ==
  /\ rawName = "" /\ tag = "" /\ binaryZipUrl = ""
  /\ err = NoError /\ exitCode = -1 /\ stdout = <<>> /\ stderr = <<>>
  /\ stages = <<>> /\ npmRuns = 0 /\ npmOutcome = "none"
  /\ failures = <<>>

FsInit ==
  /\ tmpDir = "none"
  /\ fileOpens = [f \in {"template.tgz", "bin.zip"} |-> 0]
  /\ templateExtracted = "none" /\ binExtracted = "none"
  /\ binExecutable = FALSE

\* no call made
NoCall == [state |-> "Idle", redirects |-> 0, url |-> "", urls |-> <<>>,
           status |-> -1]

PairIdle == jsonCall = NoCall /\ dlCall = NoCall

Init ==
  /\ PickIdle /\ pickPc = "idle" /\ PairIdle
  /\ HttpInit /\ ProcInit /\ FsInit
  /\ pc = "start"
  /\ args \in ArgLists
  /\ targetAtStart \in BOOLEAN
  /\ targetDir = IF targetAtStart THEN "exists" ELSE "absent"
  /\ win32 \in BOOLEAN

Next ==
  \/ Start
  \/ PromptAnswered
  \/ RequestJsonResponse
  \/ RequestJsonEnd
  \/ RequestJsonBodyCutOff
  \/ DownloadResponse
  \/ DownloadPipelineEnd
  \/ RequestError
  \/ AfterFetchLatestTag
  \/ AfterFetchLatestBinaryZipUrl
  \/ AfterMkdtemp
  \/ AfterDownloadTar
  \/ AfterDownloadZip
  \/ AfterMkdirTarget
  \/ AfterTarExtract
  \/ AfterMkdirBin
  \/ AfterUnzip
  \/ AfterMakeExecutables
  \/ AfterRm
  \/ AfterNpmInstall
  \/ TopLevelCatch

Spec == Init /\ [][Next]_vars


(***************************************************************************)
(* pickLatestReleaseWithBinZip on its own: every listing of at most        *)
(* MaxReleases releases of Releases is given to the function, which runs    *)
(* one loop iteration per step.                                            *)
(***************************************************************************)
\* one iteration of `for (const release of releases)` (cli.ts:158-185)
PickIterate ==
  /\ pickPc = "loop"
  /\ idx < Len(releases)
  /\ idx' = idx + 1
  /\ latest' = PickStep(latest, releases[idx + 1])
  /\ latestIdx' = IF Candidate(releases[idx + 1])
                     /\ Replaces(latest, releases[idx + 1])
                  THEN idx + 1
                  ELSE latestIdx
  /\ UNCHANGED <<releases, pickPc>>
  /\ UNCHANGED <<httpVars, fsVars, procVars, envVars, pairVars>>

\* return latest (cli.ts:187)
PickReturn ==
  /\ pickPc = "loop"
  /\ idx = Len(releases)
  /\ pickPc' = "returned"
  /\ UNCHANGED <<releases, idx, latest, latestIdx>>
  /\ UNCHANGED <<httpVars, fsVars, procVars, envVars, pairVars>>

InitPick ==
  /\ \E n \in ListingLengths : releases \in [1..n -> Releases]
  /\ idx = 0 /\ latest = <<>> /\ latestIdx = 0
  /\ pickPc = "loop" /\ PairIdle
  /\ HttpInit /\ ProcInit /\ FsInit
  /\ pc = "start" /\ args = <<"my-app">>
  /\ targetAtStart = FALSE /\ targetDir = "absent" /\ win32 = FALSE

NextPick == PickIterate \/ PickReturn

SpecPick == InitPick /\ [][NextPick]_vars


(***************************************************************************)
(* Vocabulary of the properties of pickLatestReleaseWithBinZip.            *)
(***************************************************************************)
\* the function has returned `latest`
Returned == pickPc = "returned"

\* the asset names of the model that equal "bin.zip" up to case
BinZipSpellings == {"bin.zip", "Bin.ZIP", "BIN.ZIP"}

\* an asset whose name case-insensitively equals "bin.zip"
NamedBinZip(asset) == asset.name \in BinZipSpellings

\* a non-draft release with an asset named bin.zip
Qualifies(release) ==
  /\ ~release.draft
  /\ \E i \in DOMAIN release.assets : NamedBinZip(release.assets[i])

\* a non-draft release with an asset named bin.zip, and every asset of that
\* name has a download URL
QualifiesWithUrl(release) ==
  /\ Qualifies(release)
  /\ \A i \in DOMAIN release.assets :
       NamedBinZip(release.assets[i])
         => TruthyStr(release.assets[i].browser_download_url)

\* a date field that holds a date
IsDate(field) == field # Absent /\ ~DateParse(field).nan

\* effective timestamp, an unparseable field counting as a missing field:
\* publishedAt if it is a date, else createdAt if it is a date, else zero
EffectiveTimestamp(release) ==
  IF IsDate(release.published_at) THEN DateParse(release.published_at).v
  ELSE IF IsDate(release.created_at) THEN DateParse(release.created_at).v
  ELSE 0

\* effective timestamp, an unparseable field counting as the earliest time:
\* publishedAt if present, else createdAt if present, else zero, where a
\* present field that is no date is zero
EffectiveTimestampLiteral(release) ==
  LET field == Coalesce(release.published_at, release.created_at)
  IN IF IsDate(field) THEN DateParse(field).v ELSE 0

\* indexes of the releases of the listing that satisfy Q
Indexes(Q(_)) == { i \in DOMAIN releases : Q(releases[i]) }

\* the returned release is a Q-release of greatest timestamp T among the
\* Q-releases of the listing
ReturnsMaximum(Q(_), T(_)) ==
  /\ latest # <<>>
  /\ Q(latest[1].release)
  /\ \A i \in Indexes(Q) : T(releases[i]) <= T(latest[1].release)

\* C1: whenever the listing holds a qualifying release (non-draft, with an
\* asset named bin.zip ignoring case), the function returns a qualifying
\* release whose effective timestamp is the maximum over the qualifying
\* releases.  Stated in its most lenient form: only listings whose bin.zip
\* assets all have download URLs are considered, and the maximum may be
\* taken under either reading of the timestamp of an unparseable field.
C1_ReturnsMaxTimestamp ==
  (Returned /\ Indexes(Qualifies) # {}
     /\ \A i \in Indexes(Qualifies) : QualifiesWithUrl(releases[i]))
  => \/ ReturnsMaximum(Qualifies, EffectiveTimestamp)
     \/ ReturnsMaximum(Qualifies, EffectiveTimestampLiteral)


\* the listing holds a qualifying release and all its bin.zip assets have
\* download URLs
AllQualifyingHaveUrls ==
  /\ Indexes(Qualifies) # {}
  /\ \A i \in Indexes(Qualifies) : QualifiesWithUrl(releases[i])

\* the returned release is the first of the qualifying releases of greatest
\* timestamp T
ReturnsFirstOfMaximum(T(_)) ==
  /\ latestIdx \in Indexes(Qualifies)
  /\ \A i \in Indexes(Qualifies) :
       /\ T(releases[i]) <= T(releases[latestIdx])
       /\ T(releases[i]) = T(releases[latestIdx]) => latestIdx <= i

\* a loop iteration that replaces a retained best by the incoming release
ReplacesRetained == latestIdx # 0 /\ latestIdx' # latestIdx

\* the replacing release is strictly newer than the replaced one under T
StrictlyNewer(T(_)) == T(releases[latestIdx']) > T(releases[latestIdx])

\* C2: tie-break.  Among the qualifying releases sharing the maximum
\* effective timestamp the one of smallest index is returned, and a later
\* release replaces the retained best only if its effective timestamp is
\* strictly greater than that of the retained best.  Stated in its most
\* lenient form, as C1.
C2_FirstSeenWinsTies ==
  /\ [](Returned /\ AllQualifyingHaveUrls
          => \/ ReturnsFirstOfMaximum(EffectiveTimestamp)
             \/ ReturnsFirstOfMaximum(EffectiveTimestampLiteral))
  /\ [][ReplacesRetained /\ AllQualifyingHaveUrls
          => \/ StrictlyNewer(EffectiveTimestamp)
             \/ StrictlyNewer(EffectiveTimestampLiteral)]_vars

\* C3: the release held by `latest`, and so the release returned, is never
\* a draft.
C3_NeverDraft == latest # <<>> => ~latest[1].release.draft

\* a draft carrying a bin.zip asset with a URL is strictly newer than every
\* other release of the listing, and a release was returned
C3_Witness ==
  /\ Returned /\ latest # <<>>
  /\ \E i \in DOMAIN releases :
       /\ releases[i].draft
       /\ \E k \in DOMAIN releases[i].assets :
            /\ NamedBinZip(releases[i].assets[k])
            /\ TruthyStr(releases[i].assets[k].browser_download_url)
       /\ \A j \in DOMAIN releases \ {i} :
            EffectiveTimestamp(releases[j]) < EffectiveTimestamp(releases[i])

\* C4: the release held by `latest` is a release of the listing that has an
\* asset named bin.zip (ignoring case), and assetUrl is the download URL of
\* such an asset of that release.
C4_HasMatchingAsset ==
  latest # <<>> =>
    /\ latestIdx \in DOMAIN releases
    /\ latest[1].release = releases[latestIdx]
    /\ \E k \in DOMAIN latest[1].release.assets :
         /\ NamedBinZip(latest[1].release.assets[k])
         /\ latest[1].release.assets[k].browser_download_url
              = latest[1].assetUrl

\* a release without any bin.zip asset is strictly newer than every other
\* release of the listing, and a release was returned
C4_Witness ==
  /\ Returned /\ latest # <<>>
  /\ \E i \in DOMAIN releases :
       /\ ~releases[i].draft
       /\ releases[i].assets # <<>>
       /\ \A k \in DOMAIN releases[i].assets :
            ~NamedBinZip(releases[i].assets[k])
       /\ \A j \in DOMAIN releases \ {i} :
            EffectiveTimestamp(releases[j]) < EffectiveTimestamp(releases[i])

\* C5 as claimed: the function returns undefined if and only if no release
\* of the listing is a non-draft with an asset named bin.zip (ignoring case).
C5_NoneIffNoQualifying ==
  Returned => (latest = <<>> <=> Indexes(Qualifies) = {})

\* a non-draft release whose first asset named bin.zip (ignoring case) has a
\* non-empty download URL
Selectable(release) ==
  /\ ~release.draft
  /\ \E k \in DOMAIN release.assets :
       /\ NamedBinZip(release.assets[k])
       /\ TruthyStr(release.assets[k].browser_download_url)
       /\ \A j \in 1..(k - 1) : ~NamedBinZip(release.assets[j])

\* C5 amended: the function returns undefined if and only if no release of
\* the listing is a non-draft whose first asset named bin.zip (ignoring
\* case) has a non-empty download URL.
C5_NoneIffNoSelectable ==
  Returned => (latest = <<>> <=> Indexes(Selectable) = {})

\* the only selectable release of the listing has its asset named "Bin.ZIP",
\* and it was returned
C5_Witness ==
  /\ Returned /\ latest # <<>>
  /\ Cardinality(Indexes(Selectable)) = 1
  /\ Cardinality(Indexes(Qualifies)) > 1
  /\ \E k \in DOMAIN latest[1].release.assets :
       latest[1].release.assets[k].name = "Bin.ZIP"


(***************************************************************************)
(* Properties of requestJson and downloadToFile, checked on every call     *)
(* main makes.                                                             *)
(***************************************************************************)
\* a call of requestJson or downloadToFile has been made
HttpCalled == httpKind \in {"requestJson", "downloadToFile"}

\* every request of the current call has been answered by a response
AllAnswered == HttpCalled /\ responses = opRequests

\* C6: against a server that answers every request with a 3xx response
\* carrying a Location header, the call follows 5 redirects, does not follow
\* the sixth redirect response and is Failed; no call ever issues more than
\* 6 requests or is beyond hop 5.
C6_RedirectsBounded ==
  /\ opRequests <= 6
  /\ redirects <= 5
  /\ (AllAnswered /\ onlyRedirects)
       => /\ httpState = "Failed"
          /\ redirects = 5
          /\ opRequests = 6

\* a download has received six redirect responses, each with a Location
\* header, and is Failed
C6_Witness ==
  /\ httpKind = "downloadToFile"
  /\ AllAnswered /\ onlyRedirects /\ responses = 6
  /\ httpState = "Failed"

\* the error is one of the two status errors
IsStatusError(e) ==
  e.kind \in {"Request failed with status", "Download failed with status"}

\* C7: when the latest response was not followed as a redirect and its
\* status is outside [200,300), the call is Failed with a status error that
\* carries the status of that response; and a status error never carries
\* anything else.
C7_ErrorCarriesFinalStatus ==
  /\ (AllAnswered /\ (lastStatus < 200 \/ lastStatus >= 300))
       => /\ httpState = "Failed"
          /\ IsStatusError(httpErr)
          /\ httpErr.status = lastStatus
  /\ IsStatusError(httpErr) => httpErr.status = lastStatus

\* after at least one followed redirect and below the hop limit, a 3xx
\* response (which then carried no Location header) failed the download
\* with its own status
C7_Witness ==
  /\ httpState = "Failed" /\ AllAnswered
  /\ redirects \in 1..4 /\ lastStatus = 301
  /\ httpErr = Error("Download failed with status", 301)


(***************************************************************************)
(* Properties of main.                                                     *)
(***************************************************************************)
\* the stages started so far, as a set
Started == { stages[i] : i \in DOMAIN stages }

\* the process has exited
Exited == pc = "exited"

\* the stages whose failure is a failed tag fetch, release listing, asset
\* selection or download
NetworkStages ==
  {"fetchLatestTag", "fetchLatestBinaryZipUrl", "downloadTar", "downloadZip"}

\* C8: a target directory that did not exist at start exists only once both
\* downloads have succeeded (each file was opened and main went on to
\* mkdir); on a run whose tag fetch, release listing, asset selection or
\* either download failed it does not exist when the process exits.
C8_TargetOnlyAfterDownloads ==
  ~targetAtStart =>
    /\ targetDir = "exists" =>
         /\ "mkdirTarget" \in Started
         /\ fileOpens["template.tgz"] = 1 /\ fileOpens["bin.zip"] = 1
    /\ (Exited /\ failures # <<>> /\ failures[1] \in NetworkStages)
         => targetDir = "absent"

\* the bin.zip download failed after the template download had succeeded,
\* and the process has exited
C8_Witness ==
  /\ Exited /\ ~targetAtStart
  /\ failures # <<>> /\ failures[1] = "downloadZip"
  /\ fileOpens["template.tgz"] = 1
  /\ targetDir = "absent"

\* what a step does not touch once a stage has failed: no request, no
\* subprocess, no change of the target directory or of the download files
NoFurtherWork ==
  /\ UNCHANGED <<stages, requestCount, opRequests, npmRuns, stdout>>
  /\ UNCHANGED <<targetDir, templateExtracted, binExtracted, binExecutable,
                 fileOpens>>

\* C9: once a stage has failed no later stage is started and no stage is
\* started twice; what follows is at most the removal of the temporary
\* directory, then one line on stderr and exit status 1.
C9_FailureAbortsPipeline ==
  /\ [][failures # <<>> =>
          /\ NoFurtherWork
          /\ pc' \in {"catch", "exited"}
          /\ pc = "rm" => tmpDir' \in {tmpDir, "removed"}
          /\ pc # "rm" => tmpDir' = tmpDir]_vars
  /\ [][(failures = <<>> /\ failures' # <<>>)
          => /\ stages' \in {stages, Append(stages, "rm")}
             /\ requestCount' = requestCount /\ npmRuns' = npmRuns]_vars
  /\ [](\A i, j \in DOMAIN stages : stages[i] = stages[j] => i = j)
  /\ [](Exited /\ failures # <<>>
          => /\ exitCode = 1
             /\ stderr = <<"Failed to initialize project">>
             /\ \A i \in DOMAIN stdout : stdout[i] # "Created")

\* the template extraction failed, the temporary directory was removed and
\* the process has exited without starting a later stage
C9_Witness ==
  /\ Exited /\ failures = <<"tarExtract">>
  /\ tmpDir = "removed"
  /\ stages[Len(stages)] = "rm"
  /\ npmRuns = 0

\* C10: if the target directory exists when main starts, no request is
\* issued, no temporary directory is created, no file is written and no
\* subprocess is started; the process exits with status 1 after one line on
\* stderr, which names the existing directory whenever a project name was
\* given.
C10_ExistingTargetFailsFirst ==
  (targetAtStart /\ ~hasHelp) =>
    /\ requestCount = 0 /\ httpKind = "none"
    /\ tmpDir = "none"
    /\ \A f \in DOMAIN fileOpens : fileOpens[f] = 0
    /\ templateExtracted = "none" /\ binExtracted = "none"
    /\ npmRuns = 0
    /\ stages = <<>>
    /\ Exited =>
         /\ exitCode = 1
         /\ Len(stderr) = 1
         /\ rawName # "" => stderr = <<"Directory already exists">>

\* the run with an existing target and a project name has exited
C10_Witness ==
  /\ Exited /\ targetAtStart /\ ~hasHelp
  /\ rawName = "my-app"
  /\ stderr = <<"Directory already exists">>
  /\ exitCode = 1


\* the lines written to stdout, as a set
Printed == { stdout[i] : i \in DOMAIN stdout }

\* every stage of main, in the order main starts them
AllStages ==
  << "fetchLatestTag", "fetchLatestBinaryZipUrl", "mkdtemp", "downloadTar",
     "downloadZip", "mkdirTarget", "tarExtract", "mkdirBin", "unzip",
     "makeExecutables", "rm", "npmInstall" >>

\* C11: the "Created" line is printed only on a run that exits with status
\* 0 after npm install exited with code 0 and every stage was started in
\* order without a failure; when npm install exits with another code, is
\* killed by a signal or cannot be spawned, the run exits with status 1 and
\* prints no "Created" line.
C11_SuccessOnlyAfterInstall ==
  /\ "Created" \in Printed =>
       /\ Exited /\ exitCode = 0
       /\ npmOutcome = "exit 0"
       /\ failures = <<>>
       /\ stages = AllStages
  /\ (Exited /\ npmOutcome \notin {"none", "exit 0"}) =>
       /\ exitCode = 1
       /\ "Created" \notin Printed
       /\ stderr = <<"Failed to initialize project">>

\* npm install was killed by a signal after every earlier stage succeeded,
\* and the run has exited with status 1
C11_Witness ==
  /\ Exited /\ npmOutcome = "exit null"
  /\ failures = <<"npmInstall">>
  /\ stages = AllStages
  /\ exitCode = 1


\* fetchLatestTag settles in this step
FetchLatestTagSettles == pc = "fetchLatestTag" /\ pc' # "fetchLatestTag"

\* C12: when the latest-release response was parsed, fetchLatestTag returns
\* its tag_name if that is a non-empty string and throws the not-found
\* error if it is absent or empty; the tag main holds is never empty once
\* set, and the template download starts at the tarball URL of that tag.
C12_TagPresentOrNotFound ==
  /\ [][(FetchLatestTagSettles /\ httpState = "Succeeded") =>
          IF httpResult.tag_name \in {Absent, ""}
          THEN /\ err' = Error("Latest release tag not found.", -1)
               /\ pc' = "catch"
               /\ tag' = tag /\ requestCount' = requestCount
          ELSE /\ tag' = httpResult.tag_name
               /\ pc' = "fetchLatestBinaryZipUrl"
               /\ err' = NoError]_vars
  /\ []("fetchLatestBinaryZipUrl" \in Started => tag \notin {Absent, ""})
  /\ []((pc = "downloadTar" /\ opRequests = 1)
          => url = TarballUrl(tag) /\ tag \notin {Absent, ""})

\* the latest-release response was parsed with an empty tag_name and the
\* run was aborted with the not-found error before any further request
C12_Witness ==
  /\ failures = <<"fetchLatestTag">>
  /\ httpState = "Succeeded"
  /\ httpResult.tag_name = ""
  /\ err = Error("Latest release tag not found.", -1)
  /\ tag = "" /\ stages = <<"fetchLatestTag">>


\* C13: missing or malformed date fields never make the function fail, and
\* a release is given one timestamp: the one it was accepted with as the
\* incoming candidate (an absent or unparseable field counting as missing,
\* zero if both are) is the one it is compared with as the retained best.
C13_OneTimestampPerRelease ==
  latest # <<>> =>
    /\ ~LatestTime(latest).nan /\ ~Time(latest[1].release).nan
    /\ LatestTime(latest) = Time(latest[1].release)
    /\ Time(latest[1].release).v = EffectiveTimestamp(latest[1].release)


\* a response arrives in this step
ResponseArrives == responses' = responses + 1

\* the response that arrives is followed: a new request is in flight
Followed == ResponseArrives /\ httpState' = "Requesting"

\* C14: a response is followed as a redirect only when its status is in
\* [300,400), it carries a Location header and the hop count is below 5; a
\* followed redirect issues exactly one request, to the resolved location,
\* with the hop count one higher, and a response that is not followed issues
\* none; so the hop count never exceeds 5 and one top-level call issues at
\* most 6 requests.
C14_RedirectGuardAndBound ==
  /\ [][Followed =>
          /\ lastStatus' >= 300 /\ lastStatus' < 400
          /\ TruthyStr(lastLocation')
          /\ redirects < 5
          /\ redirects' = redirects + 1
          /\ opRequests' = opRequests + 1
          /\ requestCount' = requestCount + 1
          /\ url' = ResolveUrl(lastLocation', url)]_vars
  /\ [][(ResponseArrives /\ ~Followed) =>
          /\ UNCHANGED <<redirects, opRequests, requestCount, url>>
          /\ httpState' \in {"Failed", "Body"}]_vars
  /\ [](HttpCalled => /\ redirects \in 0..5
                      /\ opRequests = redirects + 1
                      /\ opRequests <= 6)

\* a JSON request is at hop 5 after five followed redirects, its sixth
\* request in flight
C14_Witness ==
  /\ httpKind = "requestJson" /\ httpState = "Requesting"
  /\ redirects = 5 /\ opRequests = 6 /\ responses = 5
  /\ TruthyStr(lastLocation)


(***************************************************************************)
(* requestJson and downloadToFile side by side: one call of each is made   *)
(* for the same URL and both are given the same responses, hop by hop, up  *)
(* to the point where the call is rejected or starts handling a 2xx body.  *)
(***************************************************************************)
\* the URLs the two calls can be made for
StartUrls == {LATEST_RELEASE_URL, "https://objects.example/blob"}

\* the call f(u): the first request is in flight
NewCall(u) == [state |-> "Requesting", redirects |-> 0, url |-> u,
               urls |-> <<u>>, status |-> -1]

\* the recursive call on a followed redirect
NextHop(call, location) ==
  LET nextUrl == ResolveUrl(location, call.url)
  IN [call EXCEPT !.url = nextUrl, !.redirects = @ + 1,
                  !.urls = Append(@, nextUrl)]

\* the response callback of requestJson (cli.ts:70-89) on a call
RequestJsonStep(call, status, location) ==
  IF RequestJsonFollows(status, location, call.redirects)
  THEN NextHop(call, location)
  ELSE IF RequestJsonRejects(status)
  THEN [call EXCEPT !.state = "Failed",
                    !.status = RequestJsonStatusError(status).status]
  ELSE [call EXCEPT !.state = "Body", !.status = status]

\* the response callback of downloadToFile (cli.ts:116-137) on a call
DownloadStep(call, status, location) ==
  IF DownloadFollows(status, location, call.redirects)
  THEN NextHop(call, location)
  ELSE IF DownloadRejects(status)
  THEN [call EXCEPT !.state = "Failed",
                    !.status = DownloadStatusError(status).status]
  ELSE [call EXCEPT !.state = "Body", !.status = status]

\* the server answers the requests in flight, the same way for both calls
PairResponse ==
  /\ jsonCall.state = "Requesting" \/ dlCall.state = "Requesting"
  /\ \E status \in Statuses, location \in Locations :
       /\ jsonCall' = IF jsonCall.state = "Requesting"
                      THEN RequestJsonStep(jsonCall, status, location)
                      ELSE jsonCall
       /\ dlCall' = IF dlCall.state = "Requesting"
                    THEN DownloadStep(dlCall, status, location)
                    ELSE dlCall
  /\ UNCHANGED <<pickVars, httpVars, fsVars, procVars, envVars>>

\* the requests in flight fail before a response (cli.ts:102, 140)
PairRequestError ==
  /\ jsonCall.state = "Requesting" \/ dlCall.state = "Requesting"
  /\ jsonCall' = IF jsonCall.state = "Requesting"
                 THEN [jsonCall EXCEPT !.state = "Failed", !.status = -1]
                 ELSE jsonCall
  /\ dlCall' = IF dlCall.state = "Requesting"
               THEN [dlCall EXCEPT !.state = "Failed", !.status = -1]
               ELSE dlCall
  /\ UNCHANGED <<pickVars, httpVars, fsVars, procVars, envVars>>

InitPair ==
  /\ \E u \in StartUrls : jsonCall = NewCall(u) /\ dlCall = NewCall(u)
  /\ PickIdle /\ pickPc = "idle"
  /\ HttpInit /\ ProcInit /\ FsInit
  /\ pc = "start" /\ args = <<"my-app">>
  /\ targetAtStart = FALSE /\ targetDir = "absent" /\ win32 = FALSE

NextPair == PairResponse \/ PairRequestError

SpecPair == InitPair /\ [][NextPair]_vars

\* C15: given the same responses, requestJson and downloadToFile have
\* issued the same requests to the same URLs and are in the same state:
\* both still requesting at the same hop, both Failed with the same status,
\* or both handling the body of the same 2xx response.
C15_SameRedirectContract ==
  /\ jsonCall.state = dlCall.state
  /\ jsonCall.urls = dlCall.urls
  /\ jsonCall.redirects = dlCall.redirects
  /\ jsonCall.status = dlCall.status

\* after three followed redirects both calls were failed by a 404
C15_Witness ==
  /\ jsonCall.state = "Failed" /\ dlCall.state = "Failed"
  /\ jsonCall.status = 404 /\ dlCall.status = 404
  /\ Len(jsonCall.urls) = 4 /\ Len(dlCall.urls) = 4


\* the stages that threw, as a set
Failed == { failures[i] : i \in DOMAIN failures }

\* the temporary directory is created only after both metadata fetches
\* succeeded, and npm install starts only after it was removed
TmpDirOrdering ==
  /\ tmpDir # "none" =>
       /\ TruthyStr(tag) /\ TruthyStr(binaryZipUrl)
       /\ {"fetchLatestTag", "fetchLatestBinaryZipUrl"} \subseteq Started
       /\ Failed \cap {"fetchLatestTag", "fetchLatestBinaryZipUrl"} = {}
  /\ npmRuns > 0 => tmpDir = "removed"

\* C16 as claimed: on every run that created the temporary directory it has
\* been removed when the process exits; it is removed before npm install
\* starts and created only after both metadata fetches succeeded.
C16_TmpDirAlwaysRemoved ==
  /\ (Exited /\ tmpDir # "none") => tmpDir = "removed"
  /\ TmpDirOrdering

\* C16 amended: on every run that created the temporary directory, rm of it
\* has been started when the process exits, whatever stage failed, and the
\* directory has been removed unless that rm itself failed; it is removed
\* before npm install starts and created only after both metadata fetches
\* succeeded.
C16_TmpDirRemovalAttempted ==
  /\ (Exited /\ tmpDir # "none") =>
       /\ "rm" \in Started
       /\ "rm" \notin Failed => tmpDir = "removed"
  /\ TmpDirOrdering

\* the unzip stage failed, the temporary directory was removed and the
\* process has exited
C16_Witness ==
  /\ Exited /\ failures = <<"unzip">>
  /\ tmpDir = "removed"
  /\ npmRuns = 0


(***************************************************************************)
(* main next to another process that creates the target directory after    *)
(* the existsSync test of main (cli.ts:242) has found it missing.          *)
(***************************************************************************)
\* another process creates the directory at the target path
OtherProcessCreatesTarget ==
  /\ pc \notin {"start", "prompt", "exited"}
  /\ targetDir = "absent"
  /\ targetDir' = "exists"
  /\ UNCHANGED <<tmpDir, fileOpens, templateExtracted, binExtracted,
                 binExecutable>>
  /\ UNCHANGED <<pickVars, httpVars, procVars, envVars, pairVars>>

NextRace == Next \/ OtherProcessCreatesTarget

SpecRace == Init /\ [][NextRace]_vars

\* C17: when the tool's mkdir of the target directory settles and the
\* directory is already there (it was missing at the start-up test, so
\* another process created it), the run fails and does not go on to extract
\* the template into that directory.
C17_NoExtractionIntoForeignDir ==
  [][(pc = "mkdirTarget" /\ targetDir = "exists")
       => /\ pc' # "tarExtract"
          /\ (pc' # "mkdirTarget" => failures' # <<>>)]_vars


(***************************************************************************)
(* The process under fair scheduling: the event loop runs every callback   *)
(* that is due, and the servers, the file system and the subprocess        *)
(* eventually do one of the things they can do.                            *)
(***************************************************************************)
SpecLive == Init /\ [][Next]_vars /\ WF_vars(Next)

\* the promise of the current call is pending
CallPending ==
  HttpCalled /\ httpState \in {"Requesting", "Body", "Aborted"}

\* the promise of the current call is settled
CallSettled == HttpCalled /\ httpState \in {"Succeeded", "Failed"}

\* C18: every call of requestJson and of downloadToFile eventually settles
\* in Succeeded or Failed, whatever the server does: redirects, any final
\* status, a request error, a body that is no JSON, a body that is cut off.
C18_EveryCallSettles == [](CallPending => <>CallSettled)


\* the destination path of the download in progress
Destination == IF pc = "downloadTar" THEN "template.tgz" ELSE "bin.zip"

\* the current download has Failed on a status or before any response
FailedBeforeBody ==
  /\ httpKind = "downloadToFile" /\ httpState = "Failed"
  /\ httpErr.kind \in {"Download failed with status", "request error"}

\* some destination file is created or written in this step
DestinationTouched == fileOpens' # fileOpens

\* C19: downloadToFile touches the destination only when a 2xx response
\* arrives: not on a hop answered by a followed redirect, not in a run that
\* ends Failed on a non-2xx status or on a request error; and a destination
\* is opened at most once over the whole redirect chain.
C19_DestinationOnlyOn2xx ==
  /\ [][DestinationTouched =>
          /\ httpKind = "downloadToFile"
          /\ ResponseArrives /\ ~Followed
          /\ lastStatus' >= 200 /\ lastStatus' < 300]_vars
  /\ [](FailedBeforeBody => fileOpens[Destination] = 0)
  /\ [](\A f \in DOMAIN fileOpens : fileOpens[f] <= 1)

\* a download that followed a redirect and then Failed on a 404, its
\* destination never opened
C19_Witness ==
  /\ FailedBeforeBody /\ redirects >= 1 /\ lastStatus = 404
  /\ fileOpens[Destination] = 0

====
